---- MODULE Spec2Model ----
(***************************************************************************)
(* A model of KrishnaIyer/dry: the configuration manager (package config)  *)
(* and the field lists of the logger (package logger).                     *)
(*                                                                         *)
(* Strings of the program are sequences of one-character strings, so that  *)
(* concatenation, splitting, replacing and upper-casing are computed:      *)
(* "a.b" is <<"a", ".", "b">>, and the empty string is <<>>.                *)
(*                                                                         *)
(* Four specifications share the variables:                                *)
(*   Spec          InitFlags walking a configuration struct                *)
(*   SpecSettings  the same walk over a few fields, then flags parsed,     *)
(*                 environment set, ReadFromFile and Unmarshal             *)
(*   SpecHook      stringSliceToStringMapHookFunc on bounded inputs        *)
(*   SpecLogger    Logger.WithField / WithFields on Go slices              *)
(***************************************************************************)
EXTENDS Integers, Sequences, FiniteSets, TLC

(***************************************************************************)
(* Bounds of the model.                                                    *)
(***************************************************************************)
\* Deepest nesting of structs the walk enters (the root struct is depth 1).
MaxDepth == 3
\* Most fields one struct declares.
MaxFields == 2
\* Most fields one configuration declares in all.
MaxTotal == 3
\* Most flag occurrences, environment settings and file reads in one run.
MaxOps == 3
\* Longest sequence handed to the decode hook.
MaxLen == 3
\* Most loggers derived in one run.
MaxLoggers == 5

VARIABLES
    \* ---- Manager (config) ----
    mgrName,     \* Manager.name, also viper's env prefix and the flag set's name
    status,      \* "new" | "walking" | "bound" | "panic": where InitFlags is
    stack,       \* the Go call stack of parseStructToFlags: one frame per call
    flags,       \* mgr.flags: pflag's formal map, flag name -> flag
    shorthands,  \* mgr.flags: pflag's shorthands map, letter -> flag name
    shape,       \* the configuration struct: flag name -> reflect.Kind of the field
    parsed,      \* pflag: the value of each flag with Changed set
    env,         \* the process environment: variable name -> value
    config,      \* viper's config map, as MergeInConfig left it
    nops,        \* flag occurrences, environment settings and file reads so far
    readRet,     \* what the last ReadFromFile returned: "none" | "nil" | "err"
    ret,         \* what the last Unmarshal returned: "none" | "nil" | "err"
    decodeErr,   \* whether decoder.Decode reported an error in that call
    target,      \* the struct Unmarshal filled: option name -> decoded value
    \* ---- history of the walk, read by the properties only ----
    recording,   \* whether the specification keeps the history below
    nproc,       \* fields the walk has read (loop iterations begun)
    nskip,       \* fields the walk has skipped with `continue`
    cur,         \* the field read last, with the name the code computed for it
    expected,    \* flag names the specification derives for the fields read
    sawUnsupported,       \* a field of a kind outside the switch was read
    sawNamedUnsupported,  \* ... and it carried a name tag
    \* ---- the decode hook ----
    hookIn,      \* the call's arguments: [f, t, data]
    hookOut,     \* its results: [called, ok, data, err]
    \* ---- Logger ----
    arrays,      \* the heap: backing arrays of []zap.Field slices
    loggers,     \* the Logger values created: [arr, len] is Logger.fields
    logPanic,    \* whether a call on a logger has panicked
    derived      \* per logger, the fields of its parent followed by those passed

regVars == <<status, stack, flags, shorthands, shape>>
setVars == <<parsed, env, config, nops, readRet, ret, decodeErr, target>>
histVars == <<recording, nproc, nskip, cur, expected, sawUnsupported,
              sawNamedUnsupported>>
hookVars == <<hookIn, hookOut>>
logVars == <<arrays, loggers, logPanic, derived>>
vars == <<mgrName, regVars, setVars, histVars, hookVars, logVars>>

(***************************************************************************)
(* Strings.                                                                *)
(***************************************************************************)
\* strings.ToUpper on the letters the model uses.
UpperChar(c) ==
    CASE c = "a" -> "A" [] c = "b" -> "B" [] c = "c" -> "C" [] c = "m" -> "M"
      [] c = "p" -> "P" [] c = "q" -> "Q" [] c = "s" -> "S" [] OTHER -> c
ToUpper(s) == [i \in 1..Len(s) |-> UpperChar(s[i])]

\* The index of the first sep in s, 0 when there is none (strings.Index).
Index(s, sep) ==
    IF \E i \in 1..Len(s) : s[i] = sep
    THEN CHOOSE i \in 1..Len(s) : s[i] = sep /\ \A j \in 1..(i - 1) : s[j] # sep
    ELSE 0

(***************************************************************************)
(* reflect.Kind of a field, the struct tags, and the inputs of the walk.   *)
(***************************************************************************)
FlagKinds == {"String", "Bool", "Uint", "Uint64", "Int", "Int64", "Float64",
              "Slice", "Map"}
UnknownKinds == {"Chan"}
Kinds == FlagKinds \cup {"Struct"} \cup UnknownKinds

\* The `name` tags the configurations carry: none, "-", and two names.
Tags == {<<>>, <<"-">>, <<"a">>, <<"b">>}
\* The `short` tags: none, or one letter.
Shorts == {<<>>, <<"x">>}
\* What InitFlags may be handed: a struct, or (a common slip) a pointer to one.
CfgKinds == {"Struct", "Ptr"}

\* The fields Spec draws from: every kind under every tag.
Fields == [name : Tags, kind : Kinds, short : Shorts]

\* The fields SpecSettings draws from: a namespace "s", an int option "p", a
\* map option "m-c" and a channel tagged "p".
SettingsFields ==
    { [name |-> <<"s">>, kind |-> "Struct", short |-> <<>>],
      [name |-> <<"p">>, kind |-> "Int", short |-> <<>>],
      [name |-> <<"m", "-", "c">>, kind |-> "Map", short |-> <<>>],
      [name |-> <<"p">>, kind |-> "Chan", short |-> <<>>] }

\* The names New is called with: a word, a word with a dash, and none.
ManagerNames == {<<"p">>, <<"p", "-", "q">>, <<>>}

NoField == [name |-> <<>>, kind |-> "none", full |-> <<>>]

(***************************************************************************)
(* parseStructToFlags, one loop iteration at a time.                       *)
(***************************************************************************)
\* if (name == "" || name == "-") && kind != reflect.Struct { continue }
IsSkipped_NoDash(f) == f.name = <<>> /\ f.kind # "Struct"
IsSkipped(f) == (f.name = <<>> \/ f.name = <<"-">>) /\ f.kind # "Struct"

\* if prefix != "" { name = prefix + "." + name }
ComputedName(prefix, name) ==
    IF prefix # <<>> THEN prefix \o <<".">> \o name ELSE name

\* The switch on kind: the pflag constructor called, as pflag's value type
\* and default (pflag.Flag.Value.Type() and pflag.Flag.DefValue).
FlagFor_NoMap(kind) ==
    CASE kind = "String"  -> [typ |-> "string", def |-> ""]
      [] kind = "Bool"    -> [typ |-> "bool", def |-> "false"]
      [] kind = "Uint"    -> [typ |-> "uint", def |-> "0"]
      [] kind = "Uint64"  -> [typ |-> "uint64", def |-> "0"]
      [] kind = "Int"     -> [typ |-> "int", def |-> "0"]
      [] kind = "Int64"   -> [typ |-> "int64", def |-> "0"]
      [] kind = "Float64" -> [typ |-> "float64", def |-> "0"]
      [] kind = "Slice"   -> [typ |-> "stringSlice", def |-> "[]"]
      [] OTHER            -> [typ |-> "panic", def |-> ""]
FlagFor(kind) ==
    CASE kind = "String"  -> [typ |-> "string", def |-> ""]
      [] kind = "Bool"    -> [typ |-> "bool", def |-> "false"]
      [] kind = "Uint"    -> [typ |-> "uint", def |-> "0"]
      [] kind = "Uint64"  -> [typ |-> "uint64", def |-> "0"]
      [] kind = "Int"     -> [typ |-> "int", def |-> "0"]
      [] kind = "Int64"   -> [typ |-> "int64", def |-> "0"]
      [] kind = "Float64" -> [typ |-> "float64", def |-> "0"]
      [] kind = "Slice"   -> [typ |-> "stringSlice", def |-> "[]"]
      [] kind = "Map"     -> [typ |-> "stringSlice", def |-> "[]"]
      [] OTHER            -> [typ |-> "panic", def |-> ""]

\* default: panic(fmt.Errorf("Unknown type in config: %v", kind))
PanicsOnKind_Never(kind) == FALSE
PanicsOnKind(kind) == kind # "Struct" /\ FlagFor(kind).typ = "panic"

\* pflag's FlagSet.AddFlag panics on a name already in `formal`, and, after
\* it stored the flag, on a shorthand longer than a letter or already used.
Redefined(name) == name \in DOMAIN flags
ShortClash(short) ==
    short # <<>> /\ (Len(short) > 1 \/ short[1] \in DOMAIN shorthands)

Top == stack[Len(stack)]

\* The loop condition i < strT.NumField() holds: the struct has another field.
\* The fields of the struct are read as the walk reaches them.
HasField ==
    /\ status = "walking"
    /\ Top.i < MaxFields
    /\ nproc < MaxTotal

Advance == [stack EXCEPT ![Len(stack)].i = @ + 1]

\* What the specification derives, for the properties: the name of a nested
\* struct counts only when its tag is present and not "-".
Named(tag) == tag # <<>> /\ tag # <<"-">>
SpecName(ctx, tag) == IF ctx # <<>> THEN ctx \o <<".">> \o tag ELSE tag
SpecCtx(ctx, tag) == IF Named(tag) THEN SpecName(ctx, tag) ELSE ctx

Read(f) ==
    /\ nproc' = nproc + 1
    /\ recording' = recording
    /\ IF ~recording
       THEN UNCHANGED <<cur, expected, sawUnsupported, sawNamedUnsupported>>
       ELSE /\ cur' = [name |-> f.name, kind |-> f.kind,
                       full |-> ComputedName(Top.prefix, f.name)]
            /\ sawUnsupported' = (sawUnsupported \/ f.kind \in UnknownKinds)
            /\ sawNamedUnsupported' =
                   (sawNamedUnsupported \/ (f.kind \in UnknownKinds /\ Named(f.name)))
            /\ expected' = IF f.kind \in FlagKinds /\ Named(f.name)
                           THEN expected \cup {SpecName(Top.ctx, f.name)}
                           ELSE expected

\* InitFlags up to its call of parseStructToFlags("", rootStruct).
InitFlags(k) ==
    /\ status = "new"
    /\ IF k # "Struct"
       THEN status' = "panic" /\ stack' = stack
       ELSE /\ status' = "walking"
            /\ stack' = <<[prefix |-> <<>>, i |-> 0, ctx |-> <<>>]>>
    /\ UNCHANGED <<mgrName, flags, shorthands, shape, setVars, histVars,
                   hookVars, logVars>>

\* The field is left out: continue.
FieldContinue(f) ==
    /\ HasField
    /\ IsSkipped(f)
    /\ stack' = Advance
    /\ nskip' = nskip + 1
    /\ Read(f)
    /\ UNCHANGED <<mgrName, status, flags, shorthands, shape, setVars,
                   hookVars, logVars>>

\* A case of the switch that registers a flag.
FieldFlag(f) ==
    /\ HasField
    /\ ~IsSkipped(f)
    /\ f.kind # "Struct"
    /\ ~PanicsOnKind(f.kind)
    /\ LET name == ComputedName(Top.prefix, f.name)
           flag == [typ |-> FlagFor(f.kind).typ, def |-> FlagFor(f.kind).def,
                    short |-> f.short]
       IN  IF Redefined(name)
           THEN status' = "panic" /\ UNCHANGED <<stack, flags, shorthands, shape>>
           ELSE /\ flags' = [n \in DOMAIN flags \cup {name} |->
                                IF n = name THEN flag ELSE flags[n]]
                /\ shape' = [n \in DOMAIN shape \cup {name} |->
                                IF n = name THEN f.kind ELSE shape[n]]
                /\ IF ShortClash(f.short)
                   THEN status' = "panic" /\ UNCHANGED <<stack, shorthands>>
                   ELSE /\ status' = status
                        /\ stack' = Advance
                        /\ shorthands' =
                               IF f.short = <<>> THEN shorthands
                               ELSE [c \in DOMAIN shorthands \cup {f.short[1]} |->
                                        IF c = f.short[1] THEN name
                                        ELSE shorthands[c]]
    /\ nskip' = nskip
    /\ Read(f)
    /\ UNCHANGED <<mgrName, setVars, hookVars, logVars>>

\* case reflect.Struct: mgr.parseStructToFlags(name, field.Type)
FieldStruct(f) ==
    /\ HasField
    /\ f.kind = "Struct"
    /\ Len(stack) < MaxDepth
    /\ stack' = Append(stack, [prefix |-> ComputedName(Top.prefix, f.name),
                               i |-> 0,
                               ctx |-> SpecCtx(Top.ctx, f.name)])
    /\ nskip' = nskip
    /\ Read(f)
    /\ UNCHANGED <<mgrName, status, flags, shorthands, shape, setVars,
                   hookVars, logVars>>

\* default: panic
FieldUnknown(f) ==
    /\ HasField
    /\ ~IsSkipped(f)
    /\ PanicsOnKind(f.kind)
    /\ status' = "panic"
    /\ nskip' = nskip
    /\ Read(f)
    /\ UNCHANGED <<mgrName, stack, flags, shorthands, shape, setVars,
                   hookVars, logVars>>

\* The loop ends: the call returns to the field after the nested struct, or,
\* from the root struct, to InitFlags, which binds the flags to viper and
\* returns nil. (viper.BindPFlags fails only on a nil flag.)
StructEnd ==
    /\ status = "walking"
    /\ IF Len(stack) = 1
       THEN status' = "bound" /\ stack' = <<>>
       ELSE /\ status' = status
            /\ stack' = [SubSeq(stack, 1, Len(stack) - 1)
                           EXCEPT ![Len(stack) - 1].i = @ + 1]
    /\ UNCHANGED <<mgrName, flags, shorthands, shape, setVars, histVars,
                   hookVars, logVars>>

(***************************************************************************)
(* stringSliceToStringMapHookFunc.                                         *)
(***************************************************************************)
\* A reflect.Type, as far as the hook looks: its Kind and its Elem's Kind.
Type(kind, elem) == [kind |-> kind, elem |-> elem]

\* strings.SplitN(s, "=", 2): s whole, or the text before and after the
\* first "=".
SplitN_All(s) ==
    LET i == Index(s, "=")
    IN  IF i = 0 THEN <<s>>
        ELSE IF Index(SubSeq(s, i + 1, Len(s)), "=") = 0
             THEN <<SubSeq(s, 1, i - 1), SubSeq(s, i + 1, Len(s))>>
             ELSE <<SubSeq(s, 1, i - 1), <<>>, <<>>>>
SplitN(s) ==
    LET i == Index(s, "=")
    IN  IF i = 0 THEN <<s>>
        ELSE <<SubSeq(s, 1, i - 1), SubSeq(s, i + 1, Len(s))>>

\* m[p[0]] = p[1]
Put_KeepFirst(m, k, v) ==
    [x \in DOMAIN m \cup {k} |-> IF x \in DOMAIN m THEN m[x] ELSE v]
Put(m, k, v) == [x \in DOMAIN m \cup {k} |-> IF x = k THEN v ELSE m[x]]

\* for _, s := range sl { ... }, from element i on, with the map built so far.
\* An error carries the element it names: "Invalid format for input %v".
RECURSIVE HookLoop(_, _, _)
HookLoop(sl, i, m) ==
    IF i > Len(sl) THEN [ok |-> TRUE, data |-> m, err |-> <<>>]
    ELSE LET p == SplitN(sl[i])
         IN  IF Len(p) # 2 THEN [ok |-> FALSE, data |-> <<>>, err |-> sl[i]]
             ELSE HookLoop(sl, i + 1, Put(m, p[1], p[2]))

stringSliceToStringMapHookFunc(f, t, data) ==
    IF f.kind # "Slice" \/ f.elem # "String" \/ t.kind # "Map" \/ t.elem # "String"
    THEN [ok |-> TRUE, data |-> data, err |-> <<>>]
    ELSE HookLoop(data, 1, <<>>)

(***************************************************************************)
(* The viper instance New configures, and what it resolves.                *)
(* Values carry their Go type: [t |-> "int", v |-> 1],                      *)
(* [t |-> "string", v |-> <<"1">>], [t |-> "strs", v |-> <<...>>] for        *)
(* []string and [t |-> "map", v |-> ...] for a map read from a file.        *)
(***************************************************************************)
\* viper.SetEnvKeyReplacer(strings.NewReplacer(".", "_", "-", "_"))
EnvKeyReplacer_None(s) == s
EnvKeyReplacer(s) ==
    [i \in 1..Len(s) |-> IF s[i] = "." \/ s[i] = "-" THEN "_" ELSE s[i]]

\* viper.AllowEmptyEnv(true)
AllowEmptyEnv_Off == FALSE
AllowEmptyEnv == TRUE

\* viper.SetEnvPrefix(name)
EnvPrefix == mgrName

\* viper.AutomaticEnv(): every Get looks the key up in the environment, under
\* the key upper-cased, prefixed with the env prefix if one is set
\* (mergeWithEnvPrefix) and rewritten by the replacer (getEnv).
EnvKey(key) ==
    EnvKeyReplacer(IF EnvPrefix # <<>>
                   THEN ToUpper(EnvPrefix \o <<"_">> \o key)
                   ELSE ToUpper(key))
EnvSet(key) ==
    /\ EnvKey(key) \in DOMAIN env
    /\ (AllowEmptyEnv \/ env[EnvKey(key)] # <<>>)

\* What viper hands out for a bound flag: its value if Changed, and last of
\* all its default.
FlagValue(n) ==
    IF flags[n].typ = "int" THEN [t |-> "int", v |-> parsed[n]]
    ELSE [t |-> "strs", v |-> parsed[n]]
FlagDefault(n) ==
    IF flags[n].typ = "int" THEN [t |-> "int", v |-> 0]
    ELSE IF flags[n].typ = "stringSlice" THEN [t |-> "strs", v |-> <<>>]
    ELSE [t |-> "string", v |-> flags[n].def]

\* viper's lookup of one key: flag, environment, config file, flag default.
\* The flags are bound by InitFlags (viper.BindPFlags).
Find(n) ==
    IF status = "bound" /\ n \in DOMAIN flags /\ n \in DOMAIN parsed THEN FlagValue(n)
    ELSE IF EnvSet(n) THEN [t |-> "string", v |-> env[EnvKey(n)]]
    ELSE IF n \in DOMAIN config THEN config[n]
    ELSE FlagDefault(n)

\* mgr.viper.AllSettings(): every key of a bound flag or of the config file.
AllKeys == (IF status = "bound" THEN DOMAIN flags ELSE {}) \cup DOMAIN config
AllSettings == [n \in AllKeys |-> Find(n)]

(***************************************************************************)
(* Flags parsed, environment set, ReadFromFile, Unmarshal.                 *)
(***************************************************************************)
\* The values a command line gives an int flag, and the occurrences it gives
\* a repeatable flag.
IntVals == {0, 1}
Elems == {<<"a", "=", "1">>, <<"b">>}
\* The values an environment variable is set to.
EnvVals == {<<>>, <<"3">>}
\* What a config file says for an option of a kind.
FileValue(kind) ==
    IF kind = "Int" THEN [t |-> "int", v |-> 2]
    ELSE [t |-> "map", v |-> (<<"b">> :> <<"2">>)]

\* The variable names the process environment is set under: for each
\* option, the name viper looks up and the option's name in capitals behind
\* the manager's name as it was given to New.
EnvNames ==
    {EnvKey(n) : n \in DOMAIN flags}
        \cup {ToUpper(mgrName) \o <<"_">> \o EnvKeyReplacer(ToUpper(n)) : n \in DOMAIN flags}

\* The calls of ReadFromFile: the `config` flag empty, or naming a file that
\* cannot be read, or one that sets some of the options.
FileReads ==
    {[path |-> <<>>, readable |-> FALSE, keys |-> {}],
     [path |-> <<"c">>, readable |-> FALSE, keys |-> {}]}
        \cup {[path |-> <<"c">>, readable |-> TRUE, keys |-> k] : k \in SUBSET DOMAIN flags}

\* The caller still sets things up: InitFlags has returned, Unmarshal has not
\* been called.
SettingUp == status = "bound" /\ ret = "none" /\ nops < MaxOps

\* One occurrence of flag n on the command line (pflag's Set): the flag is
\* Changed; a stringSlice flag replaces its default by the first occurrence
\* and appends the later ones.
Parse(n) ==
    /\ SettingUp
    /\ n \in DOMAIN flags
    /\ \/ /\ flags[n].typ = "int"
          /\ \E v \in IntVals :
                parsed' = [x \in DOMAIN parsed \cup {n} |->
                              IF x = n THEN v ELSE parsed[x]]
       \/ /\ flags[n].typ = "stringSlice"
          /\ \E e \in Elems :
                parsed' = [x \in DOMAIN parsed \cup {n} |->
                              IF x # n THEN parsed[x]
                              ELSE IF n \in DOMAIN parsed THEN Append(parsed[n], e)
                              ELSE <<e>>]
    /\ nops' = nops + 1
    /\ UNCHANGED <<mgrName, regVars, env, config, readRet, ret, decodeErr,
                   target, histVars, hookVars, logVars>>

\* The environment the process runs in.
Setenv(var, val) ==
    /\ SettingUp
    /\ var \in EnvNames
    /\ env' = [x \in DOMAIN env \cup {var} |-> IF x = var THEN val ELSE env[x]]
    /\ nops' = nops + 1
    /\ UNCHANGED <<mgrName, regVars, parsed, config, readRet, ret, decodeErr,
                   target, histVars, hookVars, logVars>>

\* ReadFromFile(fs): path is what fs holds for the `config` flag ("" also
\* when fs has no such flag), readable whether the file can be read and
\* parsed, keys the options it sets.
ReadFromFile(path, readable, keys) ==
    /\ SettingUp
    /\ IF path = <<>>
       THEN readRet' = "nil" /\ config' = config
       ELSE IF ~readable
       THEN readRet' = "err" /\ config' = config
       ELSE /\ readRet' = "nil"
            /\ config' = [x \in DOMAIN config \cup keys |->
                             IF x \in keys THEN FileValue(shape[x]) ELSE config[x]]
    /\ nops' = nops + 1
    /\ UNCHANGED <<mgrName, regVars, parsed, env, ret, decodeErr, target,
                   histVars, hookVars, logVars>>

\* The reflect.Type of a resolved value, and of a field of the target.
TypeOfValue(val) ==
    CASE val.t = "strs" -> Type("Slice", "String")
      [] val.t = "map" -> Type("Map", "Interface")
      [] val.t = "int" -> Type("Int", "none")
      [] OTHER -> Type("String", "none")
TypeOfField(kind) ==
    IF kind = "Map" THEN Type("Map", "String") ELSE Type(kind, "none")

\* mapstructure decoding one value into one field: the hook first, then a
\* strict conversion (WeaklyTypedInput is not set): a string does not become
\* an int, nor a string a map.
DecodeField(kind, val) ==
    LET h == stringSliceToStringMapHookFunc(TypeOfValue(val), TypeOfField(kind), val.v)
    IN  IF ~h.ok THEN [ok |-> FALSE, data |-> <<>>]
        ELSE IF kind = "Map" /\ val.t \in {"strs", "map"} THEN [ok |-> TRUE, data |-> h.data]
        ELSE IF kind = "Int" /\ val.t = "int" THEN [ok |-> TRUE, data |-> h.data]
        ELSE [ok |-> FALSE, data |-> <<>>]

\* What Unmarshal returns, given whether NewDecoder failed and whether
\* decoder.Decode did: the latter's error is dropped.
ReturnOf(newErr, decErr) == IF newErr THEN "err" ELSE "nil"

\* Unmarshal(config): NewDecoder fails unless config is a pointer; Decode
\* fills the fields it can and reports the others.
Unmarshal(isPtr) ==
    /\ status = "bound"
    /\ ret = "none"
    /\ IF ~isPtr
       THEN /\ ret' = ReturnOf(TRUE, FALSE)
            /\ decodeErr' = FALSE
            /\ target' = target
       ELSE LET s == AllSettings
                decoded == [n \in DOMAIN s |-> DecodeField(shape[n], s[n])]
                failed == \E n \in DOMAIN s : ~decoded[n].ok
            IN  /\ ret' = ReturnOf(FALSE, failed)
                /\ decodeErr' = failed
                /\ target' = [n \in {x \in DOMAIN s : decoded[x].ok} |-> decoded[n].data]
    /\ UNCHANGED <<mgrName, regVars, parsed, env, config, nops, readRet,
                   histVars, hookVars, logVars>>

(***************************************************************************)
(* Logger: fields is a Go slice, here [arr, len] into the heap of backing  *)
(* arrays; its capacity is the length of the array.                        *)
(***************************************************************************)
\* The zero zap.Field.
ZeroField == [key |-> "", typ |-> "Unknown", val |-> ""]

\* The values WithField is handed (reflect kind and value), and the list
\* WithFields is handed.
LogKeys == {"a", "b"}
LogVals == {[kind |-> "String", v |-> "v"], [kind |-> "Int", v |-> "1"],
            [kind |-> "Bool", v |-> "true"], [kind |-> "Int64", v |-> "1"]}

\* field(key, val): a string, an int or a float64 becomes a field; an int64
\* is asserted to be an int, which panics; any other kind leaves the zero
\* field.
FieldPanics(val) == val.kind = "Int64"
field(key, val) ==
    CASE val.kind = "String" -> [key |-> key, typ |-> "String", val |-> val.v]
      [] val.kind = "Int" -> [key |-> key, typ |-> "Int64", val |-> val.v]
      [] val.kind = "Float64" -> [key |-> key, typ |-> "Float64", val |-> val.v]
      [] OTHER -> ZeroField

FieldLists == {<<field("a", [kind |-> "String", v |-> "v"]),
                 field("b", [kind |-> "Int", v |-> "1"])>>}

Cap(s) == Len(arrays[s.arr])
FieldsOf(s) == SubSeq(arrays[s.arr], 1, s.len)

\* The capacity append grows to (runtime.growslice, for capacities under
\* 256; a zap.Field is 64 bytes, so up to 12 of them fill a size class
\* exactly and the capacity is not rounded up).
Grow(oldcap, n) == IF n > 2 * oldcap THEN n ELSE 2 * oldcap

\* append(s, xs...): within the capacity the elements are written into the
\* array s points into, which every slice cut from that array shares;
\* beyond it a new array is allocated and the old elements copied.
AppendSlice(s, xs) ==
    LET n == s.len + Len(xs)
    IN  IF n <= Cap(s)
        THEN [heap |-> [arrays EXCEPT ![s.arr] =
                           [i \in 1..Cap(s) |->
                               IF s.len < i /\ i <= n THEN xs[i - s.len] ELSE @[i]]],
              slice |-> [arr |-> s.arr, len |-> n]]
        ELSE LET newcap == Grow(Cap(s), n)
                 fresh == [i \in 1..newcap |->
                              IF i <= s.len THEN arrays[s.arr][i]
                              ELSE IF i <= n THEN xs[i - s.len]
                              ELSE ZeroField]
             IN  [heap |-> Append(arrays, fresh),
                  slice |-> [arr |-> Len(arrays) + 1, len |-> n]]

\* logger.New: fields: make([]zap.Field, 0).
LoggerNew ==
    /\ ~logPanic
    /\ Len(loggers) < MaxLoggers
    /\ arrays' = Append(arrays, <<>>)
    /\ loggers' = Append(loggers, [arr |-> Len(arrays) + 1, len |-> 0])
    /\ derived' = Append(derived, <<>>)
    /\ logPanic' = logPanic
    /\ UNCHANGED <<mgrName, regVars, setVars, histVars, hookVars>>

\* l.WithField(key, val): fields: append(l.fields, field(key, val)).
WithField(l, key, val) ==
    /\ ~logPanic
    /\ l \in 1..Len(loggers)
    /\ Len(loggers) < MaxLoggers
    /\ IF FieldPanics(val)
       THEN logPanic' = TRUE /\ UNCHANGED <<arrays, loggers, derived>>
       ELSE LET r == AppendSlice(loggers[l], <<field(key, val)>>)
            IN  /\ logPanic' = logPanic
                /\ arrays' = r.heap
                /\ loggers' = Append(loggers, r.slice)
                /\ derived' = Append(derived, derived[l] \o <<field(key, val)>>)
    /\ UNCHANGED <<mgrName, regVars, setVars, histVars, hookVars>>

\* l.WithFields(f): fields: append(l.fields, f...).
WithFields(l, f) ==
    /\ ~logPanic
    /\ l \in 1..Len(loggers)
    /\ Len(loggers) < MaxLoggers
    /\ LET r == AppendSlice(loggers[l], f)
       IN  /\ logPanic' = logPanic
           /\ arrays' = r.heap
           /\ loggers' = Append(loggers, r.slice)
           /\ derived' = Append(derived, derived[l] \o f)
    /\ UNCHANGED <<mgrName, regVars, setVars, histVars, hookVars>>

(***************************************************************************)
(* The decode hook called on its own.                                      *)
(***************************************************************************)
HookTypes == {Type("Slice", "String"), Type("Slice", "Interface"),
              Type("Map", "String"), Type("Map", "Int"),
              Type("String", "none")}
HookElems == {<<"a", "=", "1">>, <<"a", "=", "2">>, <<"b", "=", "2">>,
              <<"b">>, <<"b", "=", "=">>}
RECURSIVE SeqsUpTo(_, _)
SeqsUpTo(S, n) ==
    IF n = 0 THEN {<<>>}
    ELSE LET shorter == SeqsUpTo(S, n - 1)
         IN  shorter \cup {Append(q, e) : q \in shorter, e \in S}

NotCalled == [called |-> FALSE, ok |-> TRUE, data |-> <<>>, err |-> <<>>]

CallHook ==
    /\ ~hookOut.called
    /\ LET r == stringSliceToStringMapHookFunc(hookIn.f, hookIn.t, hookIn.data)
       IN  hookOut' = [called |-> TRUE, ok |-> r.ok, data |-> r.data, err |-> r.err]
    /\ UNCHANGED <<mgrName, regVars, setVars, histVars, hookIn, logVars>>

(***************************************************************************)
(* The specifications.                                                     *)
(***************************************************************************)
\* config.New(name): a manager with no flag, nothing read, nothing decoded.
New(name) ==
    /\ mgrName = name
    /\ status = "new"
    /\ stack = <<>>
    /\ flags = <<>>
    /\ shorthands = <<>>
    /\ shape = <<>>
    /\ parsed = <<>>
    /\ env = <<>>
    /\ config = <<>>
    /\ nops = 0
    /\ readRet = "none"
    /\ ret = "none"
    /\ decodeErr = FALSE
    /\ target = <<>>

NoHistory ==
    /\ nproc = 0
    /\ nskip = 0
    /\ cur = NoField
    /\ expected = {}
    /\ sawUnsupported = FALSE
    /\ sawNamedUnsupported = FALSE

NoHookCall == hookIn = [f |-> Type("String", "none"), t |-> Type("String", "none"),
                        data |-> <<>>] /\ hookOut = NotCalled

NoLogger == arrays = <<>> /\ loggers = <<>> /\ logPanic = FALSE /\ derived = <<>>

Init == New(<<"p">>) /\ recording = TRUE /\ NoHistory /\ NoHookCall /\ NoLogger

Next ==
    \/ \E k \in CfgKinds : InitFlags(k)
    \/ \E f \in Fields : FieldContinue(f)
    \/ \E f \in Fields : FieldFlag(f)
    \/ \E f \in Fields : FieldStruct(f)
    \/ \E f \in Fields : FieldUnknown(f)
    \/ StructEnd

Spec == Init /\ [][Next]_vars

InitSettings ==
    /\ \E name \in ManagerNames : New(name)
    /\ recording = FALSE /\ NoHistory /\ NoHookCall /\ NoLogger

NextSettings ==
    \/ \E k \in CfgKinds : InitFlags(k)
    \/ \E f \in SettingsFields : FieldFlag(f)
    \/ \E f \in SettingsFields : FieldStruct(f)
    \/ \E f \in SettingsFields : FieldUnknown(f)
    \/ StructEnd
    \/ \E n \in DOMAIN flags : Parse(n)
    \/ \E var \in EnvNames, val \in EnvVals : Setenv(var, val)
    \/ \E r \in FileReads : ReadFromFile(r.path, r.readable, r.keys)
    \/ \E isPtr \in BOOLEAN : Unmarshal(isPtr)

SpecSettings == InitSettings /\ [][NextSettings]_vars

InitHook ==
    /\ New(<<"p">>) /\ recording = FALSE /\ NoHistory /\ NoLogger
    /\ hookIn \in [f : HookTypes, t : HookTypes, data : SeqsUpTo(HookElems, MaxLen)]
    /\ hookOut = NotCalled

NextHook == CallHook

SpecHook == InitHook /\ [][NextHook]_vars

InitLogger == New(<<"p">>) /\ recording = FALSE /\ NoHistory /\ NoHookCall /\ NoLogger

NextLogger ==
    \/ LoggerNew
    \/ \E l \in 1..MaxLoggers, key \in LogKeys, val \in LogVals : WithField(l, key, val)
    \/ \E l \in 1..MaxLoggers, f \in FieldLists : WithFields(l, f)

SpecLogger == InitLogger /\ [][NextLogger]_vars

(***************************************************************************)
(* Properties of the walk (checked under Spec).                            *)
(***************************************************************************)
\* C1: when registration completes, the flags registered are exactly those
\* the specification derives: each named leaf field under the dotted path of
\* its named ancestors, a nested struct with an empty or "-" name tag adding
\* nothing to the path.
C1_UnionOfChildren == status = "bound" => DOMAIN flags = expected

\* The default the specification documents for a kind, as pflag prints it.
DocumentedDefault(kind) ==
    CASE kind = "String" -> ""
      [] kind = "Bool" -> "false"
      [] kind \in {"Uint", "Uint64", "Int", "Int64", "Float64"} -> "0"
      [] kind \in {"Slice", "Map"} -> "[]"

\* The struct's first field is a named field of a supported kind, and it is
\* the only field read so far.
OneNamedField == nproc = 1 /\ nskip = 0 /\ cur.kind \in FlagKinds

\* C2: a struct with one named field of a supported kind gets exactly one
\* flag, under the field's computed name, with the documented default, and
\* registration does not abort.
C2_OneFlagPerKind ==
    OneNamedField =>
        /\ status # "panic"
        /\ DOMAIN flags = {cur.full}
        /\ cur.full = cur.name
        /\ flags[cur.full].def = DocumentedDefault(cur.kind)

C2_Witness ==
    /\ OneNamedField
    /\ status = "bound"
    /\ cur.kind = "Map"
    /\ cur.full \in DOMAIN flags

\* The text of a name after its last ".".
LastSegment(n) ==
    LET dots == {i \in 1..Len(n) : n[i] = "."}
        last == IF dots = {} THEN 0 ELSE CHOOSE i \in dots : \A j \in dots : j <= i
    IN  SubSeq(n, last + 1, Len(n))

\* C3: reading a field with an empty or "-" name tag that is not a nested
\* struct changes neither the flags nor the shorthands and does not abort, at
\* any depth; and every flag registered ends in a name tag that is neither
\* empty nor "-".
C3_UnnamedFieldSkipped ==
    /\ [](\A n \in DOMAIN flags : Named(LastSegment(n)))
    /\ [][(nproc' = nproc + 1 /\ ~Named(cur'.name) /\ cur'.kind # "Struct")
            => (flags' = flags /\ shorthands' = shorthands /\ status' = status)]_vars

C3_Witness ==
    /\ nskip >= 1
    /\ cur.name = <<"-">>
    /\ cur.kind = "Int"
    /\ Len(stack) = 2
    /\ flags # <<>>

\* C4 as stated: registration never completes for a configuration holding,
\* at any depth, a field of an unsupported kind.
C4_AbortsOnAnyUnsupported == status = "bound" => ~sawUnsupported

\* C4 amended: once a field of an unsupported kind that carries a name tag
\* (not empty, not "-") has been read, at any depth, registration has aborted.
C4_AbortsOnNamedUnsupported == sawNamedUnsupported => status = "panic"

C4_Witness ==
    /\ sawNamedUnsupported
    /\ status = "panic"
    /\ Len(stack) = 2
    /\ cur.kind = "Chan"

(***************************************************************************)
(* Properties of the merged settings and of Unmarshal (checked under       *)
(* SpecSettings).                                                          *)
(***************************************************************************)
\* The value the documented precedence chooses for option n: the flag's if
\* the flag was set on the command line, else the environment's if the
\* option's variable is set (to anything, the empty string included), else
\* the config file's if the file sets the key, else the flag's default.
ByPrecedence(n) ==
    IF n \in DOMAIN parsed
    THEN (IF flags[n].typ = "int" THEN [t |-> "int", v |-> parsed[n]]
          ELSE [t |-> "strs", v |-> parsed[n]])
    ELSE IF EnvKey(n) \in DOMAIN env THEN [t |-> "string", v |-> env[EnvKey(n)]]
    ELSE IF n \in DOMAIN config THEN config[n]
    ELSE IF flags[n].typ = "int" THEN [t |-> "int", v |-> 0]
    ELSE [t |-> "strs", v |-> <<>>]

\* Two resolved values are the same: of one Go type, and equal.
SameValue(a, b) == a.t = b.t /\ a.v = b.v

C6_DecodeErrorReturned == (ret # "none" /\ decodeErr) => ret = "err"

\* The variable the specification names for option n: the manager's name,
\* an underscore, and the option's name with "." and "-" turned into "_",
\* in capitals.
Underscored(s) == [i \in 1..Len(s) |-> IF s[i] \in {".", "-"} THEN "_" ELSE s[i]]
DocumentedEnvName(n) == ToUpper(mgrName) \o <<"_">> \o Underscored(ToUpper(n))

\* The variable the code reads for option n: as documented, with the "." and
\* "-" of the manager's name turned into "_" as well, and, for a manager
\* with an empty name, the option's name alone, with no leading underscore.
ActualEnvName(n) ==
    IF mgrName = <<>> THEN Underscored(ToUpper(n))
    ELSE Underscored(ToUpper(mgrName)) \o <<"_">> \o Underscored(ToUpper(n))

\* What an option whose flag was not set resolves to when variable var is the
\* one it resolves from: var's value if var is set, else what the file or
\* the default gives.
ResolvesFrom(n, var) ==
    SameValue(AllSettings[n],
              IF var \in DOMAIN env THEN [t |-> "string", v |-> env[var]]
              ELSE IF n \in DOMAIN config THEN config[n]
              ELSE FlagDefault(n))

\* C9 as stated: for every manager name, an option whose flag was not set
\* resolves from the variable <PREFIX>_<NAME>.
C9_EnvNameAsDocumented ==
    status = "bound" =>
        \A n \in DOMAIN flags \ DOMAIN parsed : ResolvesFrom(n, DocumentedEnvName(n))

\* C9, amended: for every manager name, an option whose flag was not set
\* resolves from the variable the replacer yields for the whole of
\* <prefix>_<name> in capitals, or for <name> alone when the manager's name
\* is empty.
C9_EnvNameAsRead ==
    status = "bound" =>
        \A n \in DOMAIN flags \ DOMAIN parsed : ResolvesFrom(n, ActualEnvName(n))

\* C9's case: a manager whose name holds a dash, an option whose name holds
\* a dot and a dash, resolved from P_Q_S_M_C.
C9_Witness ==
    /\ status = "bound"
    /\ mgrName = <<"p", "-", "q">>
    /\ <<"s", ".", "m", "-", "c">> \in DOMAIN flags \ DOMAIN parsed
    /\ <<"P", "_", "Q", "_", "S", "_", "M", "_", "C">> \in DOMAIN env
    /\ SameValue(AllSettings[<<"s", ".", "m", "-", "c">>], [t |-> "string", v |-> <<"3">>])

(***************************************************************************)
(* Properties of the decode hook (checked under SpecHook).                 *)
(***************************************************************************)
\* The hook was called with a []string to decode into a map[string]string.
HookOnShape ==
    /\ hookOut.called
    /\ hookIn.f = Type("Slice", "String")
    /\ hookIn.t = Type("Map", "String")

\* How many "=" a string holds.
CountEq(s) == Cardinality({i \in 1..Len(s) : s[i] = "="})

\* C7 as stated: the hook fails exactly when some element does not hold
\* exactly one "=", and then names such an element and yields no map.
C7_ExactlyOneEq ==
    HookOnShape =>
        /\ hookOut.ok <=> \A i \in 1..Len(hookIn.data) : CountEq(hookIn.data[i]) = 1
        /\ ~hookOut.ok =>
              /\ hookOut.data = <<>>
              /\ \E i \in 1..Len(hookIn.data) :
                    CountEq(hookIn.data[i]) # 1 /\ hookOut.err = hookIn.data[i]

\* C7, amended: the hook fails exactly when some element holds no "=" at
\* all, and then names the first such element and yields no map; an element
\* with two or more "=" is accepted.
C7_AtLeastOneEq ==
    HookOnShape =>
        /\ hookOut.ok <=> \A i \in 1..Len(hookIn.data) : CountEq(hookIn.data[i]) >= 1
        /\ ~hookOut.ok =>
              /\ hookOut.data = <<>>
              /\ \E i \in 1..Len(hookIn.data) :
                    /\ CountEq(hookIn.data[i]) = 0
                    /\ \A j \in 1..(i - 1) : CountEq(hookIn.data[j]) >= 1
                    /\ hookOut.err = hookIn.data[i]

\* C7's case: "b==" is accepted and the later "b" is the element named.
C7_Witness ==
    /\ HookOnShape
    /\ hookIn.data = <<<<"b", "=", "=">>, <<"b">>, <<"a", "=", "1">>>>
    /\ ~hookOut.ok
    /\ hookOut.err = <<"b">>

\* The text before and after the first "=" of an element that holds one.
KeyOf(e) == SubSeq(e, 1, Index(e, "=") - 1)
ValueOf(e) == SubSeq(e, Index(e, "=") + 1, Len(e))

\* The last element of the input that carries key k.
LastWith(k) ==
    CHOOSE i \in 1..Len(hookIn.data) :
        /\ KeyOf(hookIn.data[i]) = k
        /\ \A j \in (i + 1)..Len(hookIn.data) : KeyOf(hookIn.data[j]) # k

\* C8: from well-formed elements the hook yields, without error, the map
\* whose keys are the texts before the first "=" and whose value for a key
\* is the text after the first "=" of the last element carrying it; called
\* on any other pair of types it returns its input unchanged, without error.
C8_LastWriteWins ==
    /\ (HookOnShape /\ \A i \in 1..Len(hookIn.data) : CountEq(hookIn.data[i]) >= 1) =>
          /\ hookOut.ok
          /\ DOMAIN hookOut.data = {KeyOf(hookIn.data[i]) : i \in 1..Len(hookIn.data)}
          /\ \A k \in DOMAIN hookOut.data :
                hookOut.data[k] = ValueOf(hookIn.data[LastWith(k)])
    /\ (hookOut.called /\ ~HookOnShape) =>
          hookOut.ok /\ hookOut.data = hookIn.data

\* C8's case: ["a=1", "b=2", "a=2"] gives {a: "2", b: "2"}.
C8_Witness ==
    /\ HookOnShape
    /\ hookIn.data = <<<<"a", "=", "1">>, <<"b", "=", "2">>, <<"a", "=", "2">>>>
    /\ hookOut.ok
    /\ DOMAIN hookOut.data = {<<"a">>, <<"b">>}
    /\ hookOut.data[<<"a">>] = <<"2">>

(***************************************************************************)
(* Properties of the logger (checked under SpecLogger).                    *)
(***************************************************************************)
\* C10: every logger's fields are those of the logger it was derived from
\* followed by the fields it was created with, whatever was derived since.
C10_FieldsUnchanged ==
    \A l \in 1..Len(loggers) : FieldsOf(loggers[l]) = derived[l]

====
